---- MODULE Spec2Model ----
(***************************************************************************)
(* Lite Cycles (src/lite_cycles.py): the Player / AIPlayer entities, the   *)
(* TronGame session state machine and the run loop that feeds it key       *)
(* events, polled keys and ticks.                                          *)
(*                                                                         *)
(* Coordinates are kept in pixels.  GRID_SIZE * 1.5 is the float 30.0 in   *)
(* the source; every coordinate the program produces is an integer-valued  *)
(* float, so integers model them exactly.                                  *)
(*                                                                         *)
(* Not modelled (never read by the game logic): colors, Player.speed,      *)
(* AIPlayer.last_decision_time / decision_interval, game_over_timer,       *)
(* fonts, sounds and all drawing.                                          *)
(***************************************************************************)
EXTENDS Integers, Sequences, FiniteSets, TLC

\* ------------------------------------------------------------------ bounds
\* The window is 1400 x 900 in the source (lines 21-22); the model scales it
\* down so that walls and the opponent are a few steps away.
WINDOW_WIDTH == 160
WINDOW_HEIGHT == 60
\* Size of the display given by set_mode((0, 0), FULLSCREEN) (line 211): it
\* is whatever the desktop has, here a second small board.
FULLSCREEN_WIDTH == 120
FULLSCREEN_HEIGHT == 60
\* The trail keeps the last 1000 positions in the source (lines 68-69); the
\* model keeps the last TRAIL_CAP.
TRAIL_CAP == 3
\* Most KEYDOWN events queued between two ticks.
MaxQueue == 1
\* Most keys held down at one poll of the keyboard.
MaxHeld == 1
\* Most calls the driver of PlayerSpec makes.
MaxCalls == 3
\* Most directional commands issued in a behaviour of IdleSpec.
MaxSteer == 1

\* --------------------------------------------------------------- constants
GRID_SIZE == 20
MENU == 0
PLAYING == 1
GAME_OVER == 2

MoveDistance == (GRID_SIZE * 3) \div 2

Abs(n) == IF n < 0 THEN -n ELSE n

RIGHT == <<1, 0>>
LEFT == <<-1, 0>>
DOWN == <<0, 1>>
UP == <<0, -1>>
Headings == {RIGHT, LEFT, DOWN, UP}

Opposite(d) == <<-d[1], -d[2]>>

\* The controls dictionaries, in insertion order (key, direction).
ArrowControls ==
  << <<"K_UP", UP>>, <<"K_DOWN", DOWN>>, <<"K_LEFT", LEFT>>, <<"K_RIGHT", RIGHT>> >>
WasdControls ==
  << <<"K_w", UP>>, <<"K_s", DOWN>>, <<"K_a", LEFT>>, <<"K_d", RIGHT>> >>
NoControls == << >>

MoveKeys == {"K_UP", "K_DOWN", "K_LEFT", "K_RIGHT", "K_w", "K_s", "K_a", "K_d"}
\* "K_x" stands for every key the game does not bind.
Keys == MoveKeys \cup {"K_1", "K_2", "K_r", "K_m", "K_f", "K_ESCAPE", "K_x"}

\* self.player1 = None / self.player2 = None before the first reset.
None ==
  [x |-> 0, y |-> 0, direction |-> <<0, 0>>, trail |-> << >>, alive |-> FALSE,
   name |-> "None", controls |-> NoControls, ai |-> FALSE]

\* ------------------------------------------------------------------ Player
NewPlayer(x, y, controls, name) ==
  [x |-> x, y |-> y, direction |-> RIGHT, trail |-> << <<x, y>> >>,
   alive |-> TRUE, name |-> name, controls |-> controls, ai |-> FALSE]

NewAIPlayer(x, y, name) ==
  [NewPlayer(x, y, NoControls, name) EXCEPT !.direction = LEFT, !.ai = TRUE]

\* Mutant of LastCells: keeps the oldest n cells (trail[:n]).
FirstCells(s, n) == IF Len(s) > n THEN SubSeq(s, 1, n) ELSE s

\* Mutant of LastCells: nothing is ever dropped from the trail.
LastCellsKeepAll(s, n) == s

\* self.trail[-n:] when the trail is longer than n
LastCells(s, n) == IF Len(s) > n THEN SubSeq(s, Len(s) - n + 1, Len(s)) ELSE s

\* Mutant of Move: the alive test is missing.
MoveEvenDead(p) ==
  LET nx == p.x + p.direction[1] * MoveDistance
      ny == p.y + p.direction[2] * MoveDistance
      t == Append(p.trail, <<nx, ny>>)
  IN [p EXCEPT !.x = nx, !.y = ny,
               !.trail = IF Len(t) > TRAIL_CAP
                         THEN SubSeq(t, Len(t) - TRAIL_CAP + 1, Len(t)) ELSE t]

\* Mutant of Move: the cell appended to the trail is the one being left.
MoveTrailBehind(p) ==
  IF ~p.alive THEN p
  ELSE LET nx == p.x + p.direction[1] * MoveDistance
           ny == p.y + p.direction[2] * MoveDistance
           t == Append(p.trail, <<p.x, p.y>>)
       IN [p EXCEPT !.x = nx, !.y = ny, !.trail = LastCells(t, TRAIL_CAP)]

\* player.move()
Move(p) ==
  IF ~p.alive THEN p
  ELSE LET nx == p.x + p.direction[1] * MoveDistance
           ny == p.y + p.direction[2] * MoveDistance
           t == Append(p.trail, <<nx, ny>>)
       IN [p EXCEPT !.x = nx, !.y = ny, !.trail = LastCells(t, TRAIL_CAP)]

\* Mutant of ChangeDirection: the opposite heading is not rejected.
ChangeDirectionNoCheck(p, d) == IF ~p.alive THEN p ELSE [p EXCEPT !.direction = d]

ChangeDirection(p, d) ==
  IF ~p.alive THEN p
  ELSE IF d # Opposite(p.direction) THEN [p EXCEPT !.direction = d] ELSE p

\* abs(x - trail_x) < GRID_SIZE and abs(y - trail_y) < GRID_SIZE
Overlaps(x, y, cell) == Abs(x - cell[1]) < GRID_SIZE /\ Abs(y - cell[2]) < GRID_SIZE

\* Mutant of OutOfBounds: the far edges count as inside (> for >=).
OutOfBoundsPastEdge(x, y, w, h) == x < 0 \/ x > w \/ y < 0 \/ y > h

OutOfBounds(x, y, w, h) == x < 0 \/ x >= w \/ y < 0 \/ y >= h

\* self.trail[:-1]
ButLast(s) == IF Len(s) = 0 THEN s ELSE SubSeq(s, 1, Len(s) - 1)

HitsTrail(x, y, cells) == \E i \in 1..Len(cells) : Overlaps(x, y, cells[i])

\* Mutant of CheckCollision: the own-trail loop runs over the whole trail,
\* head included (self.trail for self.trail[:-1]).
CheckCollisionOwnHead(self, other, w, h) ==
  IF ~self.alive THEN FALSE
  ELSE IF OutOfBounds(self.x, self.y, w, h) THEN TRUE
  ELSE IF Len(self.trail) > 1 /\ HitsTrail(self.x, self.y, self.trail) THEN TRUE
  ELSE HitsTrail(self.x, self.y, other.trail)

\* Mutant of CheckCollision: a crashed opponent is no obstacle.
CheckCollisionLiveOpponent(self, other, w, h) ==
  IF ~self.alive \/ ~other.alive THEN FALSE
  ELSE IF OutOfBounds(self.x, self.y, w, h) THEN TRUE
  ELSE IF Len(self.trail) > 1 /\ HitsTrail(self.x, self.y, ButLast(self.trail)) THEN TRUE
  ELSE HitsTrail(self.x, self.y, other.trail)

CheckCollision(self, other, w, h) ==
  IF ~self.alive THEN FALSE
  ELSE IF OutOfBounds(self.x, self.y, w, h) THEN TRUE
  ELSE IF Len(self.trail) > 1 /\ HitsTrail(self.x, self.y, ButLast(self.trail)) THEN TRUE
  ELSE HitsTrail(self.x, self.y, other.trail)

Crash(p) == [p EXCEPT !.alive = FALSE]

\* ---------------------------------------------------------------- AIPlayer
AllDirections == <<RIGHT, LEFT, DOWN, UP>>

IsSafe(self, other, d, w, h) ==
  LET tx == self.x + d[1] * MoveDistance
      ty == self.y + d[2] * MoveDistance
  IN /\ ~OutOfBounds(tx, ty, w, h)
     /\ ~HitsTrail(tx, ty, ButLast(self.trail))
     /\ ~HitsTrail(tx, ty, other.trail)

\* Mutant of MakeDecision: the first safe direction is taken even when the
\* current one is safe too.
MakeDecisionFirstSafe(self, other, w, h) ==
  IF ~self.alive THEN self
  ELSE LET NotOpposite(d) == d # Opposite(self.direction)
           directions == SelectSeq(AllDirections, NotOpposite)
           Safe(d) == IsSafe(self, other, d, w, h)
           safe_directions == SelectSeq(directions, Safe)
           new_direction ==
             IF Len(safe_directions) > 0
             THEN safe_directions[1]
             ELSE directions[1]
       IN ChangeDirection(self, new_direction)

\* make_decision(other_player, walls, screen_width, screen_height)
MakeDecision(self, other, w, h) ==
  IF ~self.alive THEN self
  ELSE LET NotOpposite(d) == d # Opposite(self.direction)
           directions == SelectSeq(AllDirections, NotOpposite)
           Safe(d) == IsSafe(self, other, d, w, h)
           safe_directions == SelectSeq(directions, Safe)
           HasCurrent == \E i \in 1..Len(safe_directions) :
                           safe_directions[i] = self.direction
           new_direction ==
             IF Len(safe_directions) > 0
             THEN IF HasCurrent THEN self.direction ELSE safe_directions[1]
             ELSE directions[1]
       IN ChangeDirection(self, new_direction)

\* ---------------------------------------------------------------- TronGame
VARIABLES
  state,        \* self.state: MENU, PLAYING or GAME_OVER
  winner,       \* self.winner: "None", "Tie" or a player's name
  player1,      \* self.player1
  player2,      \* self.player2
  ai_mode,      \* self.ai_mode
  input_queue,  \* self.input_queue
  fullscreen,   \* self.fullscreen; it decides self.screen.get_size()
  pc,           \* run(): "loop" inside the while loop, "exit" after it
  calls         \* PlayerSpec only: calls the driver has made so far

vars == <<state, winner, player1, player2, ai_mode, input_queue, fullscreen,
          pc, calls>>

\* self.screen.get_size()
ScreenWidth == IF fullscreen THEN FULLSCREEN_WIDTH ELSE WINDOW_WIDTH
ScreenHeight == IF fullscreen THEN FULLSCREEN_HEIGHT ELSE WINDOW_HEIGHT

\* Mutant of ResetPlayers: player two is a plain Player in both modes.
ResetPlayersPlain(ai, w, h) ==
  LET grid_cols == w \div GRID_SIZE
      grid_rows == h \div GRID_SIZE
  IN << NewPlayer((grid_cols \div 4) * GRID_SIZE, (grid_rows \div 2) * GRID_SIZE,
                  ArrowControls, "Player 1"),
        NewPlayer(((3 * grid_cols) \div 4) * GRID_SIZE, (grid_rows \div 2) * GRID_SIZE,
                  WasdControls, IF ai THEN "AI" ELSE "Player 2") >>

\* The two players reset_game constructs, as <<player1, player2>>.
ResetPlayers(ai, w, h) ==
  LET grid_cols == w \div GRID_SIZE
      grid_rows == h \div GRID_SIZE
      player1_x == (grid_cols \div 4) * GRID_SIZE
      player1_y == (grid_rows \div 2) * GRID_SIZE
      player2_x == ((3 * grid_cols) \div 4) * GRID_SIZE
      player2_y == (grid_rows \div 2) * GRID_SIZE
  IN << NewPlayer(player1_x, player1_y, ArrowControls, "Player 1"),
        IF ai THEN NewAIPlayer(player2_x, player2_y, "AI")
        ELSE NewPlayer(player2_x, player2_y, WasdControls, "Player 2") >>

\* Mutant of ResetGame: the winner of the last game is kept.
ResetGameKeepsWinner(ai) ==
  LET ps == ResetPlayers(ai, ScreenWidth, ScreenHeight)
  IN /\ player1' = ps[1]
     /\ player2' = ps[2]
     /\ ai_mode' = ai
     /\ state' = PLAYING
     /\ winner' = winner
     /\ input_queue' = << >>

\* reset_game with self.ai_mode = ai.
ResetGame(ai) ==
  LET ps == ResetPlayers(ai, ScreenWidth, ScreenHeight)
  IN /\ player1' = ps[1]
     /\ player2' = ps[2]
     /\ ai_mode' = ai
     /\ state' = PLAYING
     /\ winner' = "None"
     /\ input_queue' = << >>

\* key in player.controls
InControls(controls, key) == \E i \in 1..Len(controls) : controls[i][1] = key

\* player.controls[key]
ControlOf(controls, key) ==
  controls[CHOOSE i \in 1..Len(controls) : controls[i][1] = key][2]

\* for key, direction in player.controls.items(): if keys[key]: change_direction
RECURSIVE ApplyHeld(_, _, _)
ApplyHeld(p, keys, i) ==
  IF i > Len(p.controls) THEN p
  ELSE ApplyHeld(IF p.controls[i][1] \in keys
                 THEN ChangeDirection(p, p.controls[i][2]) ELSE p,
                 keys, i + 1)

\* handle_input in PLAYING, keys being the set of keys held down:
\* <<player1, player2>> after it.
PollPlayers(p1, p2, ai, keys) ==
  << ApplyHeld(p1, keys, 1), IF ~ai THEN ApplyHeld(p2, keys, 1) ELSE p2 >>

\* One iteration of the loop of process_input_queue.
ProcessKey(p1, p2, ai, key) ==
  << IF InControls(p1.controls, key)
     THEN ChangeDirection(p1, ControlOf(p1.controls, key)) ELSE p1,
     IF ~ai /\ InControls(p2.controls, key)
     THEN ChangeDirection(p2, ControlOf(p2.controls, key)) ELSE p2 >>

\* Mutant of ProcessInputQueue: pops from the back (pop() for pop(0)).
RECURSIVE ProcessInputQueueNewestFirst(_, _, _, _)
ProcessInputQueueNewestFirst(p1, p2, ai, queue) ==
  IF queue = << >> THEN <<p1, p2>>
  ELSE LET ps == ProcessKey(p1, p2, ai, queue[Len(queue)])
       IN ProcessInputQueueNewestFirst(ps[1], ps[2], ai,
                                       SubSeq(queue, 1, Len(queue) - 1))

\* process_input_queue in PLAYING: pops from the front until the queue is
\* empty; <<player1, player2>> after it.
RECURSIVE ProcessInputQueue(_, _, _, _)
ProcessInputQueue(p1, p2, ai, queue) ==
  IF queue = << >> THEN <<p1, p2>>
  ELSE LET ps == ProcessKey(p1, p2, ai, Head(queue))
       IN ProcessInputQueue(ps[1], ps[2], ai, Tail(queue))

\* The AI decision of update.
Decide(p1, p2, ai, w, h) == IF ai /\ p2.ai THEN MakeDecision(p2, p1, w, h) ELSE p2

\* The one element of a singleton set.  The intermediate results of update
\* are bound through singleton sets, c \in {e}, so that each is computed
\* once, in the order of the statements of update.
Val(S) == CHOOSE v \in S : TRUE

\* The collision step of update on the moved players: c1 is player one after
\* its check (against the moved player two), c2 player two after its check
\* (against c1).
Collide(m1, m2, w, h) ==
  Val(UNION {{<<c1, c2>> :
                c2 \in {IF CheckCollision(m2, c1, w, h) THEN Crash(m2) ELSE m2}} :
              c1 \in {IF CheckCollision(m1, m2, w, h) THEN Crash(m1) ELSE m1}})

\* Mutant of UpdatePlayers: player one is checked as soon as it has moved,
\* against player two before its move.
UpdatePlayersCheckAsMoved(p1, p2, ai, queue, w, h) ==
  LET q == ProcessInputQueue(p1, p2, ai, queue)
      d2 == Decide(q[1], q[2], ai, w, h)
      m1 == Move(q[1])
      c1 == IF CheckCollision(m1, d2, w, h) THEN Crash(m1) ELSE m1
      m2 == Move(d2)
      c2 == IF CheckCollision(m2, c1, w, h) THEN Crash(m2) ELSE m2
  IN <<c1, c2>>

\* update in PLAYING up to the game-over test: <<player1, player2>> after it.
\* q is the players after the drain, m1 and m2 the moved players (player two
\* after its AI decision).
UpdatePlayers(p1, p2, ai, queue, w, h) ==
  Val(UNION {{Collide(m1, m2, w, h) :
                m1 \in {Move(q[1])},
                m2 \in {Move(Decide(q[1], q[2], ai, w, h))}} :
              q \in {ProcessInputQueue(p1, p2, ai, queue)}})

\* Mutant of WinnerOf: the two names are swapped.
WinnerOfSwapped(p1, p2) ==
  IF ~p1.alive /\ ~p2.alive THEN "Tie"
  ELSE IF ~p1.alive THEN p1.name ELSE p2.name

\* The winner update sets when it ends the game.
WinnerOf(p1, p2) ==
  IF ~p1.alive /\ ~p2.alive THEN "Tie"
  ELSE IF ~p1.alive THEN p2.name ELSE p1.name

\* ---------------------------------------------------------------- run loop
GameVars == <<state, winner, player1, player2, ai_mode, input_queue>>

\* Mutant of HandleKeyEvent: K_m returns to the menu from PLAYING too.
HandleKeyEventMenuAnywhere(key) ==
  IF state = MENU
  THEN IF key = "K_1" THEN ResetGame(FALSE)
       ELSE IF key = "K_2" THEN ResetGame(TRUE)
       ELSE UNCHANGED GameVars
  ELSE IF key = "K_m"
  THEN /\ state' = MENU
       /\ UNCHANGED <<winner, player1, player2, ai_mode, input_queue>>
  ELSE IF state = GAME_OVER
  THEN IF key = "K_r" THEN ResetGame(ai_mode) ELSE UNCHANGED GameVars
  ELSE IF key \in MoveKeys
       THEN /\ input_queue' = Append(input_queue, key)
            /\ UNCHANGED <<state, winner, player1, player2, ai_mode>>
       ELSE UNCHANGED GameVars

\* Mutant of HandleKeyEvent: directional keys are queued in every phase.
HandleKeyEventQueueAnywhere(key) ==
  IF key \in MoveKeys
  THEN /\ input_queue' = Append(input_queue, key)
       /\ UNCHANGED <<state, winner, player1, player2, ai_mode>>
  ELSE IF state = MENU
  THEN IF key = "K_1" THEN ResetGame(FALSE)
       ELSE IF key = "K_2" THEN ResetGame(TRUE)
       ELSE UNCHANGED GameVars
  ELSE IF state = GAME_OVER
  THEN IF key = "K_r" THEN ResetGame(ai_mode)
       ELSE IF key = "K_m"
       THEN /\ state' = MENU
            /\ UNCHANGED <<winner, player1, player2, ai_mode, input_queue>>
       ELSE UNCHANGED GameVars
  ELSE UNCHANGED GameVars

\* Mutant of HandleKeyEvent: K_r restarts in the two-player mode.
HandleKeyEventRestartHuman(key) ==
  IF state = MENU
  THEN IF key = "K_1" THEN ResetGame(FALSE)
       ELSE IF key = "K_2" THEN ResetGame(TRUE)
       ELSE UNCHANGED GameVars
  ELSE IF state = GAME_OVER
  THEN IF key = "K_r" THEN ResetGame(FALSE)
       ELSE IF key = "K_m"
       THEN /\ state' = MENU
            /\ UNCHANGED <<winner, player1, player2, ai_mode, input_queue>>
       ELSE UNCHANGED GameVars
  ELSE IF key \in MoveKeys
       THEN /\ input_queue' = Append(input_queue, key)
            /\ UNCHANGED <<state, winner, player1, player2, ai_mode>>
       ELSE UNCHANGED GameVars

\* handle_key_event(key), after the K_f / K_ESCAPE prefix.
HandleKeyEvent(key) ==
  IF state = MENU
  THEN IF key = "K_1" THEN ResetGame(FALSE)
       ELSE IF key = "K_2" THEN ResetGame(TRUE)
       ELSE UNCHANGED GameVars
  ELSE IF state = GAME_OVER
  THEN IF key = "K_r" THEN ResetGame(ai_mode)
       ELSE IF key = "K_m"
       THEN /\ state' = MENU
            /\ UNCHANGED <<winner, player1, player2, ai_mode, input_queue>>
       ELSE UNCHANGED GameVars
  ELSE IF key \in MoveKeys
       THEN /\ input_queue' = Append(input_queue, key)
            /\ UNCHANGED <<state, winner, player1, player2, ai_mode>>
       ELSE UNCHANGED GameVars

\* Mutant of KeyDown: K_f in PLAYING also puts both players of the running
\* session on the start cells of the new display.
KeyDownToggleRederives(key) ==
  /\ pc = "loop"
  /\ IF key = "K_ESCAPE"
     THEN /\ pc' = "exit"
          /\ UNCHANGED <<GameVars, fullscreen>>
     ELSE IF key = "K_f" /\ state = PLAYING
     THEN LET w == IF fullscreen THEN WINDOW_WIDTH ELSE FULLSCREEN_WIDTH
              h == IF fullscreen THEN WINDOW_HEIGHT ELSE FULLSCREEN_HEIGHT
              ps == ResetPlayers(ai_mode, w, h)
          IN /\ fullscreen' = ~fullscreen
             /\ player1' = ps[1]
             /\ player2' = ps[2]
             /\ UNCHANGED <<state, winner, ai_mode, input_queue>>
             /\ pc' = pc
     ELSE /\ fullscreen' = IF key = "K_f" THEN ~fullscreen ELSE fullscreen
          /\ HandleKeyEvent(key)
          /\ pc' = pc

\* A KEYDOWN event taken from pygame.event.get(): handle_key_event(key).
\* K_ESCAPE ends the process (pygame.quit(); sys.exit()).
KeyDown(key) ==
  /\ pc = "loop"
  /\ IF key = "K_ESCAPE"
     THEN /\ pc' = "exit"
          /\ UNCHANGED <<GameVars, fullscreen>>
     ELSE /\ fullscreen' = IF key = "K_f" THEN ~fullscreen ELSE fullscreen
          /\ HandleKeyEvent(key)
          /\ pc' = pc

\* handle_input(), keys being the set of keys held down: the game variables
\* after it, as <<player1, player2>>.
HandleInput(keys) ==
  IF state = PLAYING
  THEN PollPlayers(player1, player2, ai_mode, keys)
  ELSE <<player1, player2>>

\* Mutant of Update: a tick that ends the game leaves the queue as it was.
UpdateKeepsQueueAtEnd(ps) ==
  IF state # PLAYING
  THEN UNCHANGED GameVars
  ELSE LET us == UpdatePlayers(ps[1], ps[2], ai_mode, input_queue,
                               ScreenWidth, ScreenHeight)
       IN /\ player1' = us[1]
          /\ player2' = us[2]
          /\ IF ~us[1].alive \/ ~us[2].alive
             THEN /\ state' = GAME_OVER
                  /\ winner' = WinnerOf(us[1], us[2])
                  /\ UNCHANGED input_queue
             ELSE /\ input_queue' = << >>
                  /\ UNCHANGED <<state, winner>>
          /\ UNCHANGED ai_mode

\* Mutant of Update: the game ends only when both players are dead (and for
\* or in the game-over test).
UpdateEndsWhenBothDead(ps) ==
  IF state # PLAYING
  THEN UNCHANGED GameVars
  ELSE LET us == UpdatePlayers(ps[1], ps[2], ai_mode, input_queue,
                               ScreenWidth, ScreenHeight)
       IN /\ player1' = us[1]
          /\ player2' = us[2]
          /\ input_queue' = << >>
          /\ IF ~us[1].alive /\ ~us[2].alive
             THEN /\ state' = GAME_OVER
                  /\ winner' = WinnerOf(us[1], us[2])
             ELSE UNCHANGED <<state, winner>>
          /\ UNCHANGED ai_mode

\* update() on the players handle_input left.
Update(ps) ==
  IF state # PLAYING
  THEN UNCHANGED GameVars
  ELSE LET us == UpdatePlayers(ps[1], ps[2], ai_mode, input_queue,
                               ScreenWidth, ScreenHeight)
       IN /\ player1' = us[1]
          /\ player2' = us[2]
          /\ input_queue' = << >>
          /\ IF ~us[1].alive \/ ~us[2].alive
             THEN /\ state' = GAME_OVER
                  /\ winner' = WinnerOf(us[1], us[2])
             ELSE UNCHANGED <<state, winner>>
          /\ UNCHANGED ai_mode

\* The rest of one iteration of the loop of run(), after the KEYDOWN events:
\* handle_input(); update(); draw(); clock.tick().  quit says whether a QUIT
\* event was among the events of this iteration: it only clears the local
\* `running`, which is read when the iteration ends.
Frame(keys) ==
  /\ pc = "loop"
  /\ Update(HandleInput(keys))
  /\ \E quit \in BOOLEAN : pc' = IF quit THEN "exit" ELSE "loop"
  /\ UNCHANGED fullscreen

HeldSets == {ks \in SUBSET MoveKeys : Cardinality(ks) <= MaxHeld}

Init ==
  /\ state = MENU
  /\ winner = "None"
  /\ player1 = None
  /\ player2 = None
  /\ ai_mode = FALSE
  /\ input_queue = << >>
  /\ fullscreen = FALSE
  /\ pc = "loop"
  /\ calls = 0

\* The events of Spec: the queue holds at most MaxQueue keys.
QueueRoom(key) == (state = PLAYING /\ key \in MoveKeys) => Len(input_queue) < MaxQueue

Next ==
  \/ \E key \in Keys : QueueRoom(key) /\ KeyDown(key) /\ UNCHANGED calls
  \/ \E keys \in HeldSets : Frame(keys) /\ UNCHANGED calls

Spec == Init /\ [][Next]_vars

\* ------------------------------------------------- Player methods, directly
\* PlayerSpec: a driver takes a session right after reset_game and makes up
\* to MaxCalls calls, in any order: methods of the two player objects called
\* directly, directional KEYDOWN events, and frames of the game.
SetPlayer(i, p) ==
  /\ player1' = IF i = 1 THEN p ELSE player1
  /\ player2' = IF i = 2 THEN p ELSE player2

PlayerAt(i) == IF i = 1 THEN player1 ELSE player2

Counted ==
  /\ calls < MaxCalls
  /\ calls' = calls + 1

Call ==
  /\ pc = "loop"
  /\ Counted
  /\ UNCHANGED <<state, winner, ai_mode, input_queue, fullscreen, pc>>

\* player.move()
CallMove(i) == Call /\ SetPlayer(i, Move(PlayerAt(i)))

\* player.change_direction(d)
CallChangeDirection(i, d) == Call /\ SetPlayer(i, ChangeDirection(PlayerAt(i), d))

\* player.crash()
CallCrash(i) == Call /\ SetPlayer(i, Crash(PlayerAt(i)))

\* player2.make_decision(player1, [], screen_width, screen_height)
CallMakeDecision ==
  /\ Call
  /\ player2.ai
  /\ SetPlayer(2, MakeDecision(player2, player1, ScreenWidth, ScreenHeight))

PlayerInit ==
  /\ ai_mode \in BOOLEAN
  /\ fullscreen \in BOOLEAN
  /\ player1 = ResetPlayers(ai_mode, ScreenWidth, ScreenHeight)[1]
  /\ player2 = ResetPlayers(ai_mode, ScreenWidth, ScreenHeight)[2]
  /\ state = PLAYING
  /\ winner = "None"
  /\ input_queue = << >>
  /\ pc = "loop"
  /\ calls = 0

\* The KEYDOWN events the driver sends: the directional keys and restart.
DriverKeys == MoveKeys \cup {"K_r"}

PlayerNext ==
  \/ \E i \in {1, 2} : CallMove(i)
  \/ \E i \in {1, 2}, d \in Headings : CallChangeDirection(i, d)
  \/ \E i \in {1, 2} : CallCrash(i)
  \/ CallMakeDecision
  \/ \E key \in DriverKeys : KeyDown(key) /\ Counted
  \/ \E keys \in HeldSets : Frame(keys) /\ Counted

PlayerSpec == PlayerInit /\ [][PlayerNext]_vars

\* ------------------------------------------- a game that is left alone
\* IdleSpec: the run loop when the process is never ended and only finitely
\* many directional commands arrive: calls counts the directional KEYDOWN
\* events and the frames that find a directional key held, and at most
\* MaxSteer of them occur, so every behaviour is left alone from some point
\* on (from the start when calls stays 0).  The other keys arrive in any
\* order, and the loop of run() keeps making frames (clock.tick(FPS)
\* returns, so an iteration that can be made is made: weak fairness of the
\* frame with no key held).
IdleKeys == (Keys \ MoveKeys) \ {"K_ESCAPE"}

\* One iteration of the loop with no key held and no QUIT event.
IdleFrame == Frame({}) /\ pc' = "loop" /\ UNCHANGED calls

\* One more directional command is issued.
Steered ==
  /\ calls < MaxSteer
  /\ calls' = calls + 1

\* One iteration of the loop with a directional key held and no QUIT event.
SteeredFrame(keys) == keys # {} /\ Frame(keys) /\ pc' = "loop" /\ Steered

IdleNext ==
  \/ \E key \in IdleKeys : KeyDown(key) /\ UNCHANGED calls
  \/ \E key \in MoveKeys : KeyDown(key) /\ Steered
  \/ \E keys \in HeldSets : SteeredFrame(keys)
  \/ IdleFrame

IdleSpec == Init /\ [][IdleNext]_vars /\ WF_vars(IdleFrame)

\* ------------------------------------------------------------------ claims
Exists(p) == p # None

\* A step that is one frame of the game.
FrameStep ==
  /\ fullscreen' = fullscreen
  /\ state = PLAYING => input_queue' = << >>
  /\ \E keys \in HeldSets : Frame(keys)

\* A step that is a tick of update in PLAYING.
TickStep == state = PLAYING /\ FrameStep

HeadsOverlap(p, q) == Overlaps(p.x, p.y, <<q.x, q.y>>)

\* C1: the phase changes only along Menu -> Playing (mode-select key),
\* Playing -> GameOver (a tick that leaves a player dead), GameOver -> Playing
\* (restart key) and GameOver -> Menu (menu key); a step from Playing that
\* leaves both players alive leaves the phase Playing.
C1_PhaseEdges ==
  [][/\ state' # state =>
          \/ /\ state = MENU /\ state' = PLAYING
             /\ \E key \in {"K_1", "K_2"} : KeyDown(key)
          \/ /\ state = PLAYING /\ state' = GAME_OVER
             /\ FrameStep
             /\ ~player1'.alive \/ ~player2'.alive
          \/ /\ state = GAME_OVER /\ state' = PLAYING
             /\ KeyDown("K_r")
          \/ /\ state = GAME_OVER /\ state' = MENU
             /\ KeyDown("K_m")
     /\ (state = PLAYING /\ player1'.alive /\ player2'.alive) => state' = PLAYING
    ]_vars

\* C1 witness: a session went Menu -> Playing -> GameOver -> Menu.
C1_Witness == state = MENU /\ winner # "None"

\* C2: a tick that ends the game sets the winner to "Tie" exactly when both
\* players are dead, and otherwise to the name of the one player still
\* alive, never to the name of a dead player.
C2_Winner ==
  [][(state = PLAYING /\ state' = GAME_OVER) =>
       /\ winner' = "Tie" <=> (~player1'.alive /\ ~player2'.alive)
       /\ winner' # "Tie" =>
            \/ player1'.alive /\ ~player2'.alive /\ winner' = player1'.name
            \/ player2'.alive /\ ~player1'.alive /\ winner' = player2'.name
    ]_vars

\* C2 witness: a game that player two survived and player one did not.
C2_Witness ==
  state = GAME_OVER /\ ~player1.alive /\ player2.alive /\ winner = player2.name

\* C3: when the heads overlap after a step from Playing, both players are
\* dead, the phase is GameOver and the winner is "Tie".
C3_HeadOnTie ==
  [][(state = PLAYING /\ HeadsOverlap(player1', player2')) =>
       /\ ~player1'.alive
       /\ ~player2'.alive
       /\ state' = GAME_OVER
       /\ winner' = "Tie"
    ]_vars

\* C3 witness: a game that ended with the two heads overlapping.
C3_Witness ==
  /\ state = GAME_OVER
  /\ HeadsOverlap(player1, player2)
  /\ winner = "Tie"

\* own trail except the head, and the whole trail of the other player
TouchesTrail(p, q) ==
  HitsTrail(p.x, p.y, ButLast(p.trail)) \/ HitsTrail(p.x, p.y, q.trail)

\* the head of p is outside a board of w by h
Outside(p, w, h) == p.x < 0 \/ p.x >= w \/ p.y < 0 \/ p.y >= h

\* C7: after a tick, a player whose head is outside the bounds (x < 0,
\* x >= width, y < 0 or y >= height) is dead, and a player whose head is
\* inside the bounds and overlaps no trail cell is alive.
C7_Wall ==
  [][TickStep =>
       /\ Outside(player1', ScreenWidth, ScreenHeight) => ~player1'.alive
       /\ Outside(player2', ScreenWidth, ScreenHeight) => ~player2'.alive
       /\ (/\ ~Outside(player1', ScreenWidth, ScreenHeight)
           /\ ~TouchesTrail(player1', player2')) => player1'.alive
       /\ (/\ ~Outside(player2', ScreenWidth, ScreenHeight)
           /\ ~TouchesTrail(player2', player1')) => player2'.alive
    ]_vars

\* C7 witness: player one died with its head at exactly x = width, on no
\* trail cell.
C7_Witness ==
  /\ state = GAME_OVER
  /\ ~fullscreen
  /\ player1.x = WINDOW_WIDTH
  /\ ~player1.alive
  /\ ~TouchesTrail(player1, player2)

\* C4: a change_direction call never leaves the heading the exact opposite
\* of the heading before the call: the opposite heading is rejected, any
\* other heading is adopted by a live player.
C4_NoReversal ==
  [][\A i \in {1, 2}, d \in Headings :
       CallChangeDirection(i, d) =>
         /\ PlayerAt(i)'.direction # Opposite(PlayerAt(i).direction)
         /\ d = Opposite(PlayerAt(i).direction)
              => PlayerAt(i)'.direction = PlayerAt(i).direction
         /\ (d # Opposite(PlayerAt(i).direction) /\ PlayerAt(i).alive)
              => PlayerAt(i)'.direction = d
    ]_vars

\* C4 witness: two calls (a turn, then a turn) have reversed player one
\* where it started.
C4_Witness ==
  /\ player1.alive
  /\ Len(player1.trail) = 1
  /\ player1.direction = LEFT

\* a step that is a reset_game
ResetStep == state # PLAYING /\ state' = PLAYING

\* C5: no step other than a reset changes the position, heading or trail of
\* a player that is not alive.
C5_DeadFrozen ==
  [][\A i \in {1, 2} :
       (~PlayerAt(i).alive /\ ~ResetStep) =>
         /\ PlayerAt(i)'.x = PlayerAt(i).x
         /\ PlayerAt(i)'.y = PlayerAt(i).y
         /\ PlayerAt(i)'.direction = PlayerAt(i).direction
         /\ PlayerAt(i)'.trail = PlayerAt(i).trail
    ]_vars

\* C5 witness: player one was crashed before it ever moved, and a tick has
\* run since.
C5_Witness ==
  /\ state = GAME_OVER
  /\ ~player1.alive
  /\ Len(player1.trail) = 1
  /\ player2.alive
  /\ calls = MaxCalls

\* C6: a tick appends the new head to the trail of each player: the length
\* grows by one below the cap, and at the cap it stays and the oldest cell
\* alone is dropped.
TrailStep(p, q) ==
  LET n == Len(p.trail)
  IN /\ q.trail[Len(q.trail)] = <<q.x, q.y>>
     /\ n < TRAIL_CAP =>
          /\ Len(q.trail) = n + 1
          /\ SubSeq(q.trail, 1, n) = p.trail
     /\ n = TRAIL_CAP =>
          /\ Len(q.trail) = TRAIL_CAP
          /\ SubSeq(q.trail, 1, TRAIL_CAP - 1) = SubSeq(p.trail, 2, TRAIL_CAP)

C6_TrailGrowth ==
  [][TickStep =>
       /\ player1.alive => TrailStep(player1, player1')
       /\ player2.alive => TrailStep(player2, player2')
    ]_vars

\* C6 witness: the trail of player one is full and its start cell is gone.
C6_Witness ==
  /\ state = PLAYING
  /\ Len(player1.trail) = TRAIL_CAP
  /\ \A fs \in BOOLEAN, j \in 1..Len(player1.trail) :
       LET start == ResetPlayers(FALSE,
                       IF fs THEN FULLSCREEN_WIDTH ELSE WINDOW_WIDTH,
                       IF fs THEN FULLSCREEN_HEIGHT ELSE WINDOW_HEIGHT)[1]
       IN player1.trail[j] # <<start.x, start.y>>

\* C8: every reset puts player one at a quarter of the width and player two
\* at three quarters (rounded down to the grid), both on the middle row, and
\* heading toward each other.
C8_StartFacing ==
  [][ResetStep =>
       /\ 4 * player1'.x <= ScreenWidth
       /\ 4 * player1'.x > ScreenWidth - 5 * GRID_SIZE
       /\ 4 * player2'.x <= 3 * ScreenWidth
       /\ 4 * player2'.x > 3 * ScreenWidth - 7 * GRID_SIZE
       /\ player1'.y = player2'.y
       /\ 2 * player1'.y <= ScreenHeight
       /\ 2 * player1'.y > ScreenHeight - 3 * GRID_SIZE
       /\ player1'.direction = RIGHT
       /\ player2'.direction = LEFT
    ]_vars

\* C9: selecting the AI mode in the menu starts a game in which player two
\* is the AI and heads toward player one; from then on the heading of
\* player two is the one its own decision gives in a tick, and no other
\* step changes it.
C9_AIHeading ==
  [][/\ (state = MENU /\ KeyDown("K_2")) =>
          /\ state' = PLAYING
          /\ ai_mode'
          /\ player2'.ai
          /\ player2'.direction = LEFT
          /\ player1'.x < player2'.x
          /\ player1'.y = player2'.y
     /\ (ai_mode /\ Exists(player2) /\ ~ResetStep) =>
          player2'.direction =
            IF TickStep
            THEN MakeDecision(player2, player1, ScreenWidth, ScreenHeight).direction
            ELSE player2.direction
    ]_vars

\* C9 witness: in a game against the AI, player two has turned.
C9_Witness ==
  /\ ai_mode
  /\ state = PLAYING
  /\ player2.ai
  /\ player2.direction # LEFT

\* C10: in Playing, headings change only in the drain step of a tick: a
\* step that is no tick leaves both headings alone, and a tick leaves them
\* as update alone (queue, then AI decision) makes them, whatever is held.
C10_QueueOnly ==
  [][state = PLAYING =>
       IF TickStep
       THEN LET us == UpdatePlayers(player1, player2, ai_mode, input_queue,
                                    ScreenWidth, ScreenHeight)
            IN /\ player1'.direction = us[1].direction
               /\ player2'.direction = us[2].direction
       ELSE /\ player1'.direction = player1.direction
            /\ player2'.direction = player2.direction
    ]_vars

ArrowKeys == {"K_UP", "K_DOWN", "K_LEFT", "K_RIGHT"}
WasdKeys == {"K_w", "K_s", "K_a", "K_d"}

\* The heading a directional key asks for.
KeyHeading(key) ==
  CASE key \in {"K_UP", "K_w"} -> UP
    [] key \in {"K_DOWN", "K_s"} -> DOWN
    [] key \in {"K_LEFT", "K_a"} -> LEFT
    [] key \in {"K_RIGHT", "K_d"} -> RIGHT

\* One command applied to a heading: adopted unless the player is dead or
\* the command is the exact opposite of the heading.
Turn(h, alive, d) == IF alive /\ d # Opposite(h) THEN d ELSE h

\* The heading of a player whose keys are own, after the first n commands of
\* queue were applied once each, oldest first, to the heading h.
RECURSIVE HeadingAfter(_, _, _, _, _)
HeadingAfter(h, alive, own, queue, n) ==
  IF n = 0 THEN h
  ELSE LET before == HeadingAfter(h, alive, own, queue, n - 1)
       IN IF queue[n] \in own
          THEN Turn(before, alive, KeyHeading(queue[n])) ELSE before

\* The player p one tick after it took the heading d: moved one step along d
\* when alive.
MovedAlong(p, q, d) ==
  /\ q.direction = d
  /\ q.x = p.x + (IF p.alive THEN d[1] * MoveDistance ELSE 0)
  /\ q.y = p.y + (IF p.alive THEN d[2] * MoveDistance ELSE 0)

\* C11: a tick in Playing applies every queued command exactly once, oldest
\* first, to the player whose key it is, before either player moves (the
\* move is made along the heading the last command left), and leaves the
\* queue empty.  The headings the drain starts from are those the poll of
\* the held keys left.
C11_QueueDrain ==
  [][TickStep =>
       /\ input_queue' = << >>
       /\ \E keys \in HeldSets :
            LET polled == PollPlayers(player1, player2, ai_mode, keys)
                n == Len(input_queue)
            IN /\ MovedAlong(player1, player1',
                             HeadingAfter(polled[1].direction, player1.alive,
                                          ArrowKeys, input_queue, n))
               /\ ~ai_mode =>
                    MovedAlong(player2, player2',
                               HeadingAfter(polled[2].direction, player2.alive,
                                            WasdKeys, input_queue, n))
    ]_vars

\* C11 witness: player one, heading right since the reset, made its first
\* move to the left: two commands, up then left, were applied in that order
\* before the move.
C11_Witness ==
  /\ state = PLAYING
  /\ input_queue = << >>
  /\ calls = MaxCalls
  /\ player1.alive
  /\ Len(player1.trail) = 2
  /\ player1.direction = LEFT
  /\ player1.x = player1.trail[1][1] - MoveDistance
  /\ player2.alive /\ Len(player2.trail) = 2

\* A player as its constructor leaves it: alive, at its start cell, the trail
\* holding that one cell.
Fresh(p) == p.alive /\ p.trail = << <<p.x, p.y>> >>

\* C12: the restart key in GameOver performs the reset of a mode selection
\* with the mode of the session that just ended: the mode is unchanged, the
\* phase is Playing, both players are the freshly constructed ones of that
\* mode (alive, trail of one cell, heading of their constructor, start cells
\* of the present display), the winner is cleared and the queue is empty.
C12_Restart ==
  [][(state = GAME_OVER /\ KeyDown("K_r")) =>
       /\ ai_mode' = ai_mode
       /\ state' = PLAYING
       /\ winner' = "None"
       /\ input_queue' = << >>
       /\ Fresh(player1') /\ Fresh(player2')
       /\ player1'.direction = RIGHT
       /\ player2'.direction = IF ai_mode THEN LEFT ELSE RIGHT
       /\ player2'.ai = ai_mode
       /\ <<player1', player2'>> = ResetPlayers(ai_mode, ScreenWidth, ScreenHeight)
    ]_vars

\* C12 witness: a fresh session against the AI on the fullscreen board, as a
\* restart after a lost game leaves it.
C12_Witness ==
  /\ state = PLAYING
  /\ ai_mode
  /\ fullscreen
  /\ winner = "None"
  /\ input_queue = << >>
  /\ Fresh(player1) /\ Fresh(player2)
  /\ player2.ai /\ player2.direction = LEFT

\* The commands that do not apply in the present phase.
Inapplicable(key) ==
  \/ state = MENU /\ key \in MoveKeys \cup {"K_r", "K_m"}
  \/ state = PLAYING /\ key \in {"K_1", "K_2", "K_r", "K_m"}
  \/ state = GAME_OVER /\ key \in MoveKeys \cup {"K_1", "K_2"}

\* C13: a command that does not apply in the present phase, and a tick
\* outside Playing, are dropped: phase, mode, winner, both players and the
\* queue are unchanged, and a dropped command leaves the loop running.
C13_Dropped ==
  [][/\ (\E key \in Keys : Inapplicable(key) /\ KeyDown(key)) =>
          UNCHANGED GameVars /\ pc' = "loop"
     /\ (state # PLAYING /\ FrameStep) => UNCHANGED GameVars
    ]_vars

\* C13 witness: a finished game that player two won, still waiting in
\* GameOver: the directional and mode-select commands and the ticks that
\* arrive there are dropped and leave this very state.
C13_Witness ==
  /\ state = GAME_OVER
  /\ pc = "loop"
  /\ input_queue = << >>
  /\ ~player1.alive /\ player2.alive
  /\ winner = player2.name

\* The start cell of player one on the windowed and on the fullscreen board.
WindowedStart ==
  << ((WINDOW_WIDTH \div GRID_SIZE) \div 4) * GRID_SIZE,
     ((WINDOW_HEIGHT \div GRID_SIZE) \div 2) * GRID_SIZE >>
FullscreenStart ==
  << ((FULLSCREEN_WIDTH \div GRID_SIZE) \div 4) * GRID_SIZE,
     ((FULLSCREEN_HEIGHT \div GRID_SIZE) \div 2) * GRID_SIZE >>

\* C14: the toggle-display command, in any phase, flips the display mode
\* (and with it the board bounds) and changes nothing else: phase, mode,
\* winner, queue and both players (position, heading, trail, alive flag, so
\* also the cells they started from) are unchanged.
C14_ToggleOnly ==
  [][KeyDown("K_f") =>
       /\ fullscreen' = ~fullscreen
       /\ UNCHANGED GameVars
       /\ pc' = pc
    ]_vars

\* C14 witness: a running session on the fullscreen board whose player one
\* started from the start cell of the windowed board and has moved once: the
\* display was toggled after the reset and the players stayed where the
\* windowed reset put them.
C14_Witness ==
  /\ state = PLAYING
  /\ fullscreen
  /\ WindowedStart # FullscreenStart
  /\ Len(player1.trail) = 2
  /\ player1.trail[1] = WindowedStart
  /\ player1.alive /\ player2.alive

\* The place of a heading in the order right, left, down, up.
Rank(d) ==
  CASE d = RIGHT -> 1
    [] d = LEFT -> 2
    [] d = DOWN -> 3
    [] d = UP -> 4

\* The first heading of a non-empty set in that order.
FirstOf(S) == CHOOSE d \in S : \A e \in S : Rank(d) <= Rank(e)

\* The cell c overlaps the cell whose corner is <<x, y>>.
CellsOverlap(x, y, c) == Abs(x - c[1]) < GRID_SIZE /\ Abs(y - c[2]) < GRID_SIZE

\* The candidates of the reference choice: every heading but the opposite
\* of the current one.
RefCandidates(a) == {d \in Headings : d # <<-a.direction[1], -a.direction[2]>>}

\* A candidate is safe: the cell one step ahead is inside the w x h board
\* and overlaps no cell of the own trail but the head and no cell of the
\* opponent's trail.
RefSafe(a, o, d, w, h) ==
  LET x == a.x + d[1] * ((3 * GRID_SIZE) \div 2)
      y == a.y + d[2] * ((3 * GRID_SIZE) \div 2)
  IN /\ 0 <= x /\ x < w /\ 0 <= y /\ y < h
     /\ \A i \in 1..(Len(a.trail) - 1) : ~CellsOverlap(x, y, a.trail[i])
     /\ \A i \in 1..Len(o.trail) : ~CellsOverlap(x, y, o.trail[i])

RefSafeSet(a, o, w, h) == {d \in RefCandidates(a) : RefSafe(a, o, d, w, h)}

\* The reference choice of the live AI player a against the opponent o.
RefChoice(a, o, w, h) ==
  IF a.direction \in RefSafeSet(a, o, w, h) THEN a.direction
  ELSE IF RefSafeSet(a, o, w, h) # {} THEN FirstOf(RefSafeSet(a, o, w, h))
  ELSE FirstOf(RefCandidates(a))

\* C15: in every state with a live AI player, the heading an AI decision
\* gives is the reference choice: the current heading if it is safe, else
\* the first safe candidate in the order right, left, down, up, else the
\* first candidate in that order.
C15_AIChoice ==
  (Exists(player2) /\ player2.ai /\ player2.alive) =>
    MakeDecision(player2, player1, ScreenWidth, ScreenHeight).direction
      = RefChoice(player2, player1, ScreenWidth, ScreenHeight)

\* C15 witness: a live AI whose current heading is safe while a heading
\* earlier in the order is safe too.
C15_Witness ==
  /\ Exists(player2) /\ player2.ai /\ player2.alive
  /\ player2.direction \in RefSafeSet(player2, player1, ScreenWidth, ScreenHeight)
  /\ FirstOf(RefSafeSet(player2, player1, ScreenWidth, ScreenHeight))
       # player2.direction

\* The window of a trail: its TRAIL_CAP most recent cells.
Recent(trail) ==
  [i \in 1..(IF Len(trail) > TRAIL_CAP THEN TRAIL_CAP ELSE Len(trail)) |->
     trail[i + (IF Len(trail) > TRAIL_CAP THEN Len(trail) - TRAIL_CAP ELSE 0)]]

\* The head of p overlaps none of the first n cells of cells.
ClearOf(p, cells, n) == \A i \in 1..n : ~CellsOverlap(p.x, p.y, cells[i])

\* After its move the player p, with opponent q, is inside the bounds and
\* its head overlaps no cell of the window of either trail but itself.
ClearOfWindows(p, q) ==
  /\ ~Outside(p, ScreenWidth, ScreenHeight)
  /\ ClearOf(p, Recent(p.trail), Len(Recent(p.trail)) - 1)
  /\ ClearOf(p, Recent(q.trail), Len(Recent(q.trail)))

\* C16: the collision step looks only at the cells in the bounded windows
\* of the two trails: a live player whose head, after the move of a tick, is
\* inside the bounds and overlaps no cell of either window (but itself) is
\* alive after the tick, whatever cells the trails held before.
C16_WindowOnly ==
  [][TickStep =>
       /\ (player1.alive /\ ClearOfWindows(player1', player2')) => player1'.alive
       /\ (player2.alive /\ ClearOfWindows(player2', player1')) => player2'.alive
    ]_vars

\* C16 witness: player one, alive in a running session, is back on the cell
\* it started from, and that cell has left its full trail window.
C16_Witness ==
  /\ state = PLAYING
  /\ player1.alive
  /\ Len(player1.trail) = TRAIL_CAP
  /\ <<player1.x, player1.y>> \in {WindowedStart, FullscreenStart}
  /\ \A i \in 1..(TRAIL_CAP - 1) :
       /\ player1.trail[i] # <<player1.x, player1.y>>
       /\ (player1.trail[i][1] - player1.x) % MoveDistance = 0

\* The head of p is outside the bounds, or overlaps a cell of its own trail
\* other than the head, or overlaps a cell of the trail of q.
Crashes(p, q) ==
  \/ Outside(p, ScreenWidth, ScreenHeight)
  \/ ~ClearOf(p, p.trail, Len(p.trail) - 1)
  \/ ~ClearOf(p, q.trail, Len(q.trail))

\* C17: the collision step of a tick works on the two players after both
\* have moved: a player alive before the tick is dead after it exactly when
\* its head is then outside the bounds, or overlaps a cell of its own trail
\* other than its head, or overlaps a cell of the opponent's trail after the
\* opponent's move, new head included; for player two as for player one,
\* whether or not player one crashed in this tick.
C17_CollisionStep ==
  [][TickStep =>
       /\ player1.alive => (~player1'.alive <=> Crashes(player1', player2'))
       /\ player2.alive => (~player2'.alive <=> Crashes(player2', player1'))
    ]_vars

\* C17 witness: both players are dead after a tick, and player two is dead
\* only because its head overlaps the new head of player one, who had been
\* marked crashed before player two was checked.
C17_Witness ==
  /\ state = GAME_OVER
  /\ ~player1.alive /\ ~player2.alive
  /\ ~Outside(player2, ScreenWidth, ScreenHeight)
  /\ ClearOf(player2, player2.trail, Len(player2.trail) - 1)
  /\ ClearOf(player2, player1.trail, Len(player1.trail) - 1)
  /\ CellsOverlap(player2.x, player2.y, <<player1.x, player1.y>>)

\* The trail of p is non-empty, holds at most TRAIL_CAP cells and ends in the
\* position of p.
TrailShape(p) ==
  /\ Len(p.trail) >= 1
  /\ Len(p.trail) <= TRAIL_CAP
  /\ p.trail[Len(p.trail)] = <<p.x, p.y>>

\* C18: in every reachable state the trail of each existing player is
\* non-empty, has at most TRAIL_CAP cells, and its last cell is the player's
\* position.
C18_TrailShape ==
  /\ Exists(player1) => TrailShape(player1)
  /\ Exists(player2) => TrailShape(player2)

\* The start cell of player two on the windowed and on the fullscreen board.
WindowedStartTwo ==
  << ((3 * (WINDOW_WIDTH \div GRID_SIZE)) \div 4) * GRID_SIZE,
     ((WINDOW_HEIGHT \div GRID_SIZE) \div 2) * GRID_SIZE >>
FullscreenStartTwo ==
  << ((3 * (FULLSCREEN_WIDTH \div GRID_SIZE)) \div 4) * GRID_SIZE,
     ((FULLSCREEN_HEIGHT \div GRID_SIZE) \div 2) * GRID_SIZE >>

\* C18 witness: player two has a full trail that no longer begins with its
\* start cell (a move has truncated it), and has just turned a corner.
C18_Witness ==
  /\ Exists(player2)
  /\ Len(player2.trail) = TRAIL_CAP
  /\ player2.trail[1] \notin {WindowedStartTwo, FullscreenStartTwo}
  /\ player2.trail[TRAIL_CAP] = <<player2.x, player2.y>>
  /\ player2.trail[TRAIL_CAP - 1][2] # player2.y

\* C19: every step leads to a state in which, if the phase is Playing, both
\* players are alive and the winner is unset, and if the phase is GameOver,
\* at least one player is dead and the winner is set; and no step but a
\* reset turns a dead player alive.
C19_AliveFlags ==
  [][/\ state' = PLAYING =>
          player1'.alive /\ player2'.alive /\ winner' = "None"
     /\ state' = GAME_OVER =>
          (~player1'.alive \/ ~player2'.alive) /\ winner' # "None"
     /\ (Exists(player1) /\ ~player1.alive /\ ~ResetStep) => ~player1'.alive
     /\ (Exists(player2) /\ ~player2.alive /\ ~ResetStep) => ~player2'.alive
    ]_vars

\* C19 witness: a game against the AI is over, the AI is dead, player one
\* is alive and is the winner.
C19_Witness ==
  /\ state = GAME_OVER
  /\ ai_mode
  /\ ~player2.alive /\ player1.alive
  /\ winner = "Player 1"

\* The heading of the last move of p, read off the last two cells of its
\* trail.
LastMove(p) ==
  LET n == Len(p.trail)
  IN << (p.trail[n][1] - p.trail[n - 1][1]) \div MoveDistance,
        (p.trail[n][2] - p.trail[n - 1][2]) \div MoveDistance >>

\* The player p, alive and with a move behind it, moves in this tick to q
\* along a heading that is not the opposite of the heading of its last move,
\* and q is not on the cell p held one tick earlier.
NoBacktrack(p, q) ==
  (p.alive /\ Len(p.trail) >= 2) =>
    /\ q.direction # <<-LastMove(p)[1], -LastMove(p)[2]>>
    /\ <<q.x, q.y>> # p.trail[Len(p.trail) - 1]

\* C20: in a tick a live player never moves along the exact opposite of the
\* heading of its preceding move, whatever commands arrived in between, and
\* so never steps back onto the cell it held one tick earlier.
C20_NoBacktrack ==
  [][TickStep => NoBacktrack(player1, player1') /\ NoBacktrack(player2, player2')]_vars

\* C21: the command queue is non-empty only in Playing: in every reachable
\* state with the phase Menu or GameOver the queue is empty.
C21_QueueOnlyPlaying == state # PLAYING => input_queue = << >>

\* C21 witness: a two-player game ended on its first tick with both players
\* gone up through the top edge.  At most MaxHeld keys are held at a poll,
\* so when MaxHeld is 1 one of the two turns was a queued command: the tick
\* that ended the game found the queue non-empty and left it empty.
C21_Witness ==
  /\ state = GAME_OVER
  /\ input_queue = << >>
  /\ ~ai_mode
  /\ Len(player1.trail) = 2 /\ Len(player2.trail) = 2
  /\ player1.direction = UP /\ player2.direction = UP
  /\ player1.y < 0 /\ player2.y < 0

\* C22: in a game against the AI, when the heading the AI moves with in a
\* tick was safe at decision time (judged on the positions and trails both
\* players had before the tick, on the bounds of the tick), the AI's new
\* head is inside the bounds and overlaps no cell of its own trail but
\* itself and no cell the opponent's trail held before the tick, and the AI
\* is dead after the tick only if its new head overlaps the cell the
\* opponent moved into in that tick.
C22_SafeChoice ==
  [][(/\ TickStep
      /\ ai_mode /\ player2.ai /\ player2.alive
      /\ RefSafe(player2, player1, player2'.direction, ScreenWidth, ScreenHeight))
     =>
       /\ ~Outside(player2', ScreenWidth, ScreenHeight)
       /\ ClearOf(player2', player2'.trail, Len(player2'.trail) - 1)
       /\ ClearOf(player2', player1.trail, Len(player1.trail))
       /\ ~player2'.alive =>
            CellsOverlap(player2'.x, player2'.y, <<player1'.x, player1'.y>>)
    ]_vars

\* C22 witness: the AI died on the first tick of a game: its head is inside
\* the bounds, overlaps neither its own start cell nor the opponent's, so
\* the heading it took was safe, and it overlaps the cell the opponent moved
\* into.
C22_Witness ==
  /\ state = GAME_OVER
  /\ ai_mode /\ player2.ai
  /\ ~player2.alive
  /\ Len(player2.trail) = 2 /\ Len(player1.trail) = 2
  /\ ~Outside(player2, ScreenWidth, ScreenHeight)
  /\ ~CellsOverlap(player2.x, player2.y, player2.trail[1])
  /\ ~CellsOverlap(player2.x, player2.y, player1.trail[1])
  /\ CellsOverlap(player2.x, player2.y, player1.trail[2])

\* C23: when ticks keep occurring and no directional command is issued any
\* more (none at all, or none after the last of finitely many), every
\* session that is Playing reaches GameOver, and a session in GameOver stays
\* there with the same winner until a restart or a return-to-menu command.
C23_IdleEnds ==
  /\ (state = PLAYING) ~> (state = GAME_OVER)
  /\ [][state = GAME_OVER =>
          \/ state' = GAME_OVER /\ winner' = winner
          \/ KeyDown("K_r")
          \/ KeyDown("K_m")
       ]_vars

\* C23 witness: a two-player game in which no directional command was ever
\* issued is over: player two kept its first heading, has left the board
\* through the far edge and lost.
C23_Witness ==
  /\ state = GAME_OVER
  /\ calls = 0
  /\ ~ai_mode
  /\ player1.alive /\ ~player2.alive
  /\ player2.direction = RIGHT
  /\ player2.x >= ScreenWidth
  /\ winner = player1.name

====
